---- MODULE Spec2Model ----
(***************************************************************************)
(* Model of the chunked transcription pipeline                             *)
(* transcribe_and_summarize_video (video_trans_sum.py) and of the Process  *)
(* button handler that calls it (streamlit_app.py).                        *)
(*                                                                         *)
(* Python strings are sequences of one-character strings, so that          *)
(* str.split, int(), ' '.join and the f-string file names are computed the *)
(* way the code computes them.  None is the value NULL.                    *)
(***************************************************************************)
EXTENDS Integers, Sequences, FiniteSets, TLC

(***************************************************************************)
(* Bounds of the model.                                                    *)
(***************************************************************************)
MaxWorkers == 2          \* concurrency_level ranges over 1..MaxWorkers
MaxAudioSteps == 5       \* the decoded audio lasts 0..MaxAudioSteps steps of 30 seconds
MaxChunkLength == 4      \* SplitSpec: chunk_length_sec ranges over 1..MaxChunkLength
MaxQuarters == 40        \* SplitSpec: the audio lasts 0..MaxQuarters quarters of a second

(***************************************************************************)
(* Program constants.                                                      *)
(***************************************************************************)
MsPerSec == 1000                       \* chunk_length_ms = chunk_length_sec * 1000
UploadLimit == 24 * 1024 * 1024        \* the 24 MB limit of audio_to_text_single_call

(***************************************************************************)
(* Inputs the model draws from.                                            *)
(***************************************************************************)
ChunkLengths == {60, 140}              \* values of chunk_length_sec
\* len(audio) in milliseconds, of the decoded canonical audio
AudioLengths == {30 * k * MsPerSec : k \in 0..MaxAudioSteps}
\* decoded sample formats: 48 kHz, 16-bit stereo, 192 bytes per millisecond
AudioFormats == {[frame_rate |-> 48000, frame_width |-> 4]}
\* SplitSpec: len(audio) in steps of 250 milliseconds
QuarterLengths == {(k * MsPerSec) \div 4 : k \in 0..MaxQuarters}

NULL == <<"None">>

(***************************************************************************)
(* Strings.                                                                *)
(***************************************************************************)
Delim == <<"_", "c", "h", "u", "n", "k", "_">>       \* '_chunk_'
DotWav == <<".", "w", "a", "v">>
Digits == <<"0", "1", "2", "3", "4", "5", "6", "7", "8", "9">>

\* str(n) for n >= 0
RECURSIVE str(_)
str(n) == IF n < 10 THEN <<Digits[n + 1]>>
          ELSE str(n \div 10) \o <<Digits[(n % 10) + 1]>>

DigitValue(c) == CHOOSE d \in 0..9 : Digits[d + 1] = c

IsDigit(c) == \E d \in 0..9 : Digits[d + 1] = c

\* int(s) raises ValueError unless s is a decimal literal
IntRaises(s) == s = <<>> \/ \E k \in 1..Len(s) : ~IsDigit(s[k])

RECURSIVE int(_)
int(s) == IF Len(s) = 1 THEN DigitValue(s[1])
          ELSE 10 * int(SubSeq(s, 1, Len(s) - 1)) + DigitValue(s[Len(s)])

\* s.find(p) from position k (1-based); 0 when absent
RECURSIVE Find(_, _, _)
Find(s, p, k) == IF k + Len(p) - 1 > Len(s) THEN 0
                 ELSE IF SubSeq(s, k, k + Len(p) - 1) = p THEN k
                 ELSE Find(s, p, k + 1)

\* p in s
Contains(s, p) == Find(s, p, 1) # 0

\* s.split(p)
RECURSIVE split(_, _)
split(s, p) ==
    LET k == Find(s, p, 1)
    IN  IF k = 0 THEN <<s>>
        ELSE <<SubSeq(s, 1, k - 1)>> \o split(SubSeq(s, k + Len(p), Len(s)), p)

\* sep.join(parts)
RECURSIVE join(_, _)
join(sep, parts) ==
    IF parts = <<>> THEN <<>>
    ELSE IF Len(parts) = 1 THEN parts[1]
    ELSE parts[1] \o sep \o join(sep, Tail(parts))

\* bool(x) of a value that is None or a string
Truthy(x) == x # NULL /\ x # <<>>

(***************************************************************************)
(* Paths.  A path is [dir, stem, ext]: os.path.basename is stem + ext and  *)
(* os.path.splitext(basename) is (stem, ext).  dir is "temp" for temp_dir, *)
(* "chunks" for chunks_dir, "ext" for a directory outside temp_dir and     *)
(* "url" for a remote URL.                                                 *)
(***************************************************************************)
Path(d, s, e) == [dir |-> d, stem |-> s, ext |-> e]

\* the media sources a caller hands over
Sources == { Path("ext", <<"v">>, ".mp4"),
             Path("ext", <<"v">>, ".mp3"),
             Path("ext", <<"v">>, ".wav"),
             Path("temp", <<"v">>, ".wav"),
             Path("url", <<"v">>, ".mp4"),
             Path("ext", <<"a">> \o Delim \o <<"7">>, ".mp4"),
             Path("ext", <<"a">> \o Delim \o <<"b">>, ".mp4") }

get_file_type(p) ==
    IF p.ext \in {".mp4", ".avi", ".mov", ".mkv", ".webm", ".flv"} THEN "video"
    ELSE IF p.ext \in {".mp3", ".wav", ".ogg", ".m4a", ".flac", ".aac"} THEN "audio"
    ELSE "video"

\* audio_path = os.path.join(temp_dir, f"{video_name}.wav")
AudioPathOf(p) == Path("temp", p.stem, ".wav")

\* chunk_file = os.path.join(chunks_dir, f"{video_name}_chunk_{i}.wav")
ChunkFile(video_name, i) == Path("chunks", video_name \o Delim \o str(i), ".wav")

\* a sub-window file named after the video alone, not after the chunk file
SubWindowFileOfVideo(file_path, j) ==
    Path("temp", split(file_path.stem, Delim)[1] \o DotWav \o Delim \o str(j), ".wav")

\* chunk_path = os.path.join(temp_dir, f"{os.path.basename(file_path)}_chunk_{i}.wav")
SubWindowFile(file_path, j) ==
    Path("temp", file_path.stem \o DotWav \o Delim \o str(j), ".wav")

(***************************************************************************)
(* Chunk Splitter arithmetic.                                              *)
(***************************************************************************)
CeilDiv(a, b) == (a + b - 1) \div b

Min(a, b) == IF a < b THEN a ELSE b

\* list(range(start, stop, step)) for step > 0
RECURSIVE range(_, _, _)
range(start, stop, step) ==
    IF start >= stop THEN <<>>
    ELSE <<start>> \o range(start + step, stop, step)

\* a slice that is not clamped at the end of the audio
SliceLenUnclamped(len_ms, start, chunk_ms) == chunk_ms

\* len(audio[start:start + chunk_length_ms])
SliceLen(len_ms, start, chunk_ms) == Min(start + chunk_ms, len_ms) - start

\* frame_count(ms=d) = int(d * frame_rate / 1000.0), computed without a wide product
FrameCount(fmt, d) ==
    (d \div MsPerSec) * fmt.frame_rate + ((d % MsPerSec) * fmt.frame_rate) \div MsPerSec

\* len(audio.raw_data) of a segment of d milliseconds
RawSize(fmt, d) == FrameCount(fmt, d) * fmt.frame_width

\* a window length that is twice what the upload limit allows
chunk_duration_msDoubled(raw, d) == [num |-> 2 * UploadLimit, den |-> raw \div d]

\* chunk_duration_ms = (24 * 1024 * 1024) / (len(audio.raw_data) / len(audio)):
\* a fraction num/den of milliseconds; the bytes per millisecond are a whole
\* number for the formats of AudioFormats
chunk_duration_ms(raw, d) == [num |-> UploadLimit, den |-> raw \div d]

\* int(frame_count(ms = min(k * chunk_length, len(audio)))): the frame at which
\* window k of make_chunks starts, computed without a wide product
WindowStart(fmt, d, chunk_length, k) ==
    IF k * chunk_length.num >= d * chunk_length.den THEN FrameCount(fmt, d)
    ELSE LET ms == (k * chunk_length.num) \div chunk_length.den
             part == (k * chunk_length.num) % chunk_length.den
         IN  FrameCount(fmt, ms)
             + (part * (fmt.frame_rate \div MsPerSec)) \div chunk_length.den

\* make_chunks(audio, chunk_length): ceil(len(audio) / chunk_length) slices
\* audio[k * chunk_length:(k + 1) * chunk_length], given by their raw sizes
make_chunks(fmt, d, chunk_length) ==
    LET number_of_chunks == CeilDiv(d * chunk_length.den, chunk_length.num)
    IN  [k \in 1..number_of_chunks |->
            (WindowStart(fmt, d, chunk_length, k)
             - WindowStart(fmt, d, chunk_length, k - 1)) * fmt.frame_width]

(***************************************************************************)
(* The chunks the splitter loop cuts from an audio of len_ms milliseconds: *)
(* the file, the duration and the raw size of each, in the order cut.      *)
(***************************************************************************)
CutChunks(video_name, fmt, len_ms, chunk_length_sec) ==
    LET chunk_length_ms == chunk_length_sec * MsPerSec
        starts == range(0, len_ms, chunk_length_ms)
    IN  [k \in 1..Len(starts) |->
            LET d == SliceLen(len_ms, starts[k], chunk_length_ms)
            IN  [file |-> ChunkFile(video_name, k - 1),
                 start |-> starts[k],
                 dur |-> d,
                 fmt |-> fmt,
                 raw |-> RawSize(fmt, d)]]

(***************************************************************************)
(* Transcript Assembler.                                                   *)
(***************************************************************************)
\* the sort key raises: int() of the second part of the split
KeyRaises(chunk_id) ==
    Contains(chunk_id, Delim) /\ IntRaises(split(chunk_id, Delim)[2])

\* int(x['chunk_id'].split('_chunk_')[1]) if '_chunk_' in x['chunk_id'] else 0
SortKey(chunk_id) ==
    IF Contains(chunk_id, Delim) THEN int(split(chunk_id, Delim)[2]) ELSE 0

\* insert r after the last element whose key is <= key(r): sorted() is stable
RECURSIVE InsertSorted(_, _)
InsertSorted(sorted_prefix, r) ==
    IF sorted_prefix = <<>> THEN <<r>>
    ELSE LET last == sorted_prefix[Len(sorted_prefix)]
         IN  IF SortKey(last.chunk_id) <= SortKey(r.chunk_id)
             THEN Append(sorted_prefix, r)
             ELSE Append(InsertSorted(SubSeq(sorted_prefix, 1, Len(sorted_prefix) - 1), r),
                         last)

\* sorted(chunks_results, key=...): an insertion sort; the sorted prefix is
\* bound once, as a value
RECURSIVE sorted(_)
sorted(results) ==
    IF results = <<>> THEN <<>>
    ELSE CHOOSE out \in
             {InsertSorted(sorted_prefix, results[Len(results)]) :
                 sorted_prefix \in {sorted(SubSeq(results, 1, Len(results) - 1))}} : TRUE

\* [chunk['transcript'] for chunk in sorted_chunks if chunk['transcript']]
RECURSIVE TruthyTranscripts(_)
TruthyTranscripts(chunks) ==
    IF chunks = <<>> THEN <<>>
    ELSE (IF Truthy(chunks[1].transcript) THEN <<chunks[1].transcript>> ELSE <<>>)
         \o TruthyTranscripts(Tail(chunks))

MergeRaises(results) == \E k \in 1..Len(results) : KeyRaises(results[k].chunk_id)

\* sorted_chunks = sorted(chunks_results, key=...), then
\* full_transcript = ' '.join(...) over sorted_chunks
FullTranscript(results) ==
    CHOOSE full_transcript \in
        {join(<<" ">>, TruthyTranscripts(sorted_chunks)) : sorted_chunks \in {sorted(results)}} :
            TRUE

(***************************************************************************)
(* Transcription Client.                                                   *)
(***************************************************************************)
\* the text the speech-to-text service returns for window w of chunk i
Text(i, w) == <<"t">> \o str(i) \o str(w)

ErrBody == <<"error body">>
ErrNoKey == <<"OpenAI API key not found in environment variables">>
ErrTransport == <<"transport exception">>
ErrDecode == <<"could not decode chunk">>

\* the outcomes of one POST to the speech-to-text endpoint
SttOutcomes == {"text", "empty", "error_body", "exception"}

\* transcript_v1 of transcribe_with_openai_whisper for an outcome that returns
TranscriptV1(i, w, outcome) == IF outcome = "text" THEN Text(i, w) ELSE <<>>

\* what audio_to_text_single_call returns
ContentTranscript(t) == [transcript |-> t, error |-> NULL]
ContentError(e) == [transcript |-> NULL, error |-> e]

\* a chunk_result whose chunk_id does not tell the chunks apart
ChunkResultSameId(chunk_path, response) ==
    [chunk_id |-> <<"c", "h", "u", "n", "k">>,
     file_name |-> chunk_path.stem \o DotWav,
     error |-> response.error,
     transcript |-> response.transcript]

\* chunk_result of process_audio_chunk
ChunkResult(chunk_path, response) ==
    [chunk_id |-> chunk_path.stem,
     file_name |-> chunk_path.stem \o DotWav,
     error |-> response.error,
     transcript |-> response.transcript]

(***************************************************************************)
(* Results of transcribe_and_summarize_video.                              *)
(***************************************************************************)
NoResult == [keys |-> {}, error |-> "", summary |-> "", raw_summary |-> ""]
ErrorResult(msg) == [keys |-> {"error"}, error |-> msg, summary |-> "", raw_summary |-> ""]
\* a parse error that drops the text
ParseErrorResultNoRaw(text) == ErrorResult("Failed to parse JSON summary")

ParseErrorResult(text) ==
    [keys |-> {"error", "raw_summary"}, error |-> "Failed to parse JSON summary",
     summary |-> "", raw_summary |-> text]
SummaryResult(obj) == [keys |-> {"summary"}, error |-> "", summary |-> obj, raw_summary |-> ""]

\* contents the chat-completion endpoint returns
SummaryTexts == {"{\"summary\": {}}", "Here is the summary", "Summary: {}"}
\* json.loads(summary_text) succeeds
IsJson(text) == text = "{\"summary\": {}}"

(***************************************************************************)
(* Calls.                                                                  *)
(***************************************************************************)
\* parameters of transcribe_and_summarize_video
Params == {"video_path", "temp_dir", "provider", "concurrency_level",
           "chunk_length_sec", "is_url"}

\* keyword arguments of each caller
Kwargs(c) ==
    CASE c = "ui_file" -> {"video_path", "temp_dir", "concurrency_level",
                            "chunk_length_sec", "api_key"}
      [] c = "ui_url"  -> {"video_path", "temp_dir", "concurrency_level",
                            "chunk_length_sec", "is_url", "api_key"}
      [] OTHER         -> {"video_path", "temp_dir", "concurrency_level",
                            "chunk_length_sec", "is_url"}

\* Python binds the keyword arguments, or raises TypeError
Accepts(kwargs) == kwargs \subseteq Params

Callers == {"direct", "ui_file", "ui_url"}

VARIABLES
    caller,             \* who calls the pipeline
    pc,                 \* position of the main thread
    video_path,         \* argument, then the resolved local file
    is_url,             \* argument
    concurrency_level,  \* argument
    chunk_length_sec,   \* argument
    credential,         \* OPENAI_API_KEY is set in the environment
    temp_dir_exists,    \* temp_dir is on the filesystem
    files,              \* the files on the filesystem
    source_file,        \* the file the caller supplied (a local path)
    audio_path,         \* local of the pipeline
    audio_len,          \* len(audio) in milliseconds, NotLoaded before the splitter
    audio_chunks,       \* the chunks cut, in order
    tasks,              \* one future per chunk
    chunks_results,     \* the results collection
    full_transcript,    \* local of the pipeline
    stt_requests,       \* requests issued to the speech-to-text endpoint
    chat_requests,      \* requests issued to the chat-completion endpoint
    result,             \* the dictionary returned
    ui_outcome,         \* what the Process handler ended with
    summary_text,       \* the content of the chat-completion answer
    key_was_set         \* OPENAI_API_KEY has been set at some time of the run

vars == <<caller, pc, video_path, is_url, concurrency_level, chunk_length_sec,
          credential, temp_dir_exists, files, source_file, audio_path, audio_len,
          audio_chunks, tasks, chunks_results, full_transcript, stt_requests, chat_requests,
          result, ui_outcome, summary_text, key_was_set>>

NoPath == Path("none", <<>>, "")
NotLoaded == 0 - 1
\* summary_text before the chat-completion endpoint has answered
NotReceived == "<not received>"

(***************************************************************************)
(* Initial states: a caller about to invoke the pipeline.                  *)
(***************************************************************************)
Init ==
    /\ caller \in Callers
    /\ video_path \in Sources
    /\ caller = "ui_file" => video_path.dir = "temp"
    /\ caller = "ui_url" => video_path.dir = "url"
    /\ is_url = (video_path.dir = "url")
    /\ concurrency_level \in 1..MaxWorkers
    /\ chunk_length_sec \in ChunkLengths
    /\ credential \in BOOLEAN
    /\ pc = IF caller = "direct" THEN "call" ELSE "ui"
    \* a direct caller's local source exists; the Process handler still has to save it
    /\ files = IF caller = "direct" /\ ~is_url THEN {video_path} ELSE {}
    /\ temp_dir_exists = (caller = "direct" /\ video_path.dir = "temp")
    /\ source_file = IF is_url THEN NoPath ELSE video_path
    /\ audio_path = NoPath
    /\ audio_len = NotLoaded
    /\ audio_chunks = <<>>
    /\ tasks = <<>>
    /\ chunks_results = <<>>
    /\ full_transcript = <<>>
    /\ stt_requests = 0
    /\ chat_requests = 0
    /\ result = NoResult
    /\ ui_outcome = "none"
    /\ summary_text = NotReceived
    /\ key_was_set = credential

(***************************************************************************)
(* Process button handler, up to the call (streamlit_app.py).              *)
(***************************************************************************)
\* os.makedirs(temp_dir); the upload is saved as temp_dir/<uploaded name>
UISave ==
    /\ pc = "ui"
    /\ temp_dir_exists' = TRUE
    /\ files' = IF caller = "ui_file" THEN files \cup {video_path} ELSE files
    /\ pc' = "call"
    /\ UNCHANGED <<key_was_set, summary_text, caller, video_path, is_url, concurrency_level, chunk_length_sec,
                   credential, source_file, audio_path, audio_len, audio_chunks, tasks,
                   chunks_results, full_transcript, stt_requests, chat_requests,
                   result, ui_outcome>>

(***************************************************************************)
(* transcribe_and_summarize_video.                                         *)
(***************************************************************************)
Return(res) == pc' = "returned" /\ result' = res

\* STEP 4 left outside any try block
CaughtExceptMerge(stage) == stage \in {"download", "normalize", "split", "summarize"}

\* the stages whose body is inside a try block with an except Exception clause
Caught(stage) == stage \in {"download", "normalize", "split", "merge", "summarize"}

\* a failed STEP 1 that lets the run go on to the splitter
FailGoesOn(stage, msg) ==
    IF stage = "normalize" THEN pc' = "split" /\ result' = ErrorResult(msg)
    ELSE IF Caught(stage) THEN Return(ErrorResult(msg))
    ELSE pc' = "raised" /\ UNCHANGED result

\* an exception raised in a stage: the handler returns {"error": msg}
Fail(stage, msg) ==
    IF Caught(stage) THEN Return(ErrorResult(msg))
    ELSE pc' = "raised" /\ UNCHANGED result

\* the call binds its keyword arguments (or raises TypeError), then
\* os.makedirs(temp_dir, exist_ok=True)
Call ==
    /\ pc = "call"
    /\ IF Accepts(Kwargs(caller))
       THEN /\ temp_dir_exists' = TRUE
            /\ pc' = IF is_url THEN "fetch" ELSE "normalize"
       ELSE /\ pc' = "raised"
            /\ UNCHANGED temp_dir_exists
    /\ UNCHANGED <<key_was_set, summary_text, caller, video_path, is_url, concurrency_level, chunk_length_sec,
                   credential, files, source_file, audio_path, audio_len, audio_chunks, tasks,
                   chunks_results, full_transcript, stt_requests, chat_requests,
                   result, ui_outcome>>

\* download_file_from_url succeeds: the file is saved in temp_dir
DownloadOk ==
    /\ pc = "fetch"
    /\ video_path' = Path("temp", video_path.stem, video_path.ext)
    /\ files' = files \cup {video_path'}
    /\ pc' = "normalize"
    /\ UNCHANGED <<key_was_set, summary_text, caller, is_url, concurrency_level, chunk_length_sec, credential,
                   temp_dir_exists, source_file, audio_path, audio_len, audio_chunks, tasks,
                   chunks_results, full_transcript, stt_requests, chat_requests,
                   result, ui_outcome>>

\* the download raises, possibly after the output file was opened
DownloadFail ==
    /\ pc = "fetch"
    /\ \E partial \in BOOLEAN :
          files' = IF partial
                   THEN files \cup {Path("temp", video_path.stem, video_path.ext)}
                   ELSE files
    /\ Fail("download", "Failed to download from URL")
    /\ UNCHANGED <<key_was_set, summary_text, caller, video_path, is_url, concurrency_level, chunk_length_sec,
                   credential, temp_dir_exists, source_file, audio_path, audio_len, audio_chunks,
                   tasks, chunks_results, full_transcript, stt_requests, chat_requests,
                   ui_outcome>>

\* STEP 1 succeeds: ffmpeg extraction or conversion, a copy of a .wav input, or
\* nothing at all when the .wav input already is at audio_path
NormalizeOk ==
    /\ pc = "normalize"
    /\ audio_path' = AudioPathOf(video_path)
    /\ files' = files \cup {audio_path'}
    /\ pc' = "split"
    /\ UNCHANGED <<key_was_set, summary_text, caller, video_path, is_url, concurrency_level, chunk_length_sec,
                   credential, temp_dir_exists, source_file, audio_len, audio_chunks, tasks,
                   chunks_results, full_transcript, stt_requests, chat_requests,
                   result, ui_outcome>>

\* ffmpeg or shutil.copy raises; nothing can raise when the paths are the same
NormalizeFail ==
    /\ pc = "normalize"
    /\ ~(get_file_type(video_path) = "audio" /\ video_path.ext = ".wav"
         /\ video_path = AudioPathOf(video_path))
    /\ Fail("normalize", IF get_file_type(video_path) = "video"
                         THEN "Audio extraction failed"
                         ELSE "Audio conversion failed")
    /\ UNCHANGED <<key_was_set, summary_text, caller, video_path, is_url, concurrency_level, chunk_length_sec,
                   credential, temp_dir_exists, files, source_file, audio_path,
                   audio_len, audio_chunks, tasks, chunks_results, full_transcript, stt_requests,
                   chat_requests, ui_outcome>>

\* a future: its state, the windows make_chunks cut, the window its worker is
\* at, the requests it sent, the transcript_v1 of each call that returned, the
\* transcript accumulated, what audio_to_text_single_call returned, and
\* whether a call for it failed
NewTask == [st |-> "queued", chunks |-> <<>>, win |-> 0, requests |-> 0,
            texts |-> <<>>, acc |-> <<>>,
            response |-> ContentTranscript(<<>>), failed |-> FALSE]

\* a splitter that never finds its list of chunks empty
NoChunksNever(chunks) == FALSE

\* if not audio_chunks
NoChunks(chunks) == chunks = <<>>

\* the audio, of a length in lengths, is loaded and cut; all tasks are then
\* submitted to the executor
SplitLengths(lengths) ==
    /\ pc = "split"
    /\ \E len_ms \in lengths, fmt \in AudioFormats :
          LET chunks == CutChunks(video_path.stem, fmt, len_ms, chunk_length_sec)
          IN  /\ audio_len' = len_ms
              /\ audio_chunks' = chunks
              /\ files' = files \cup {chunks[k].file : k \in 1..Len(chunks)}
              /\ IF NoChunks(chunks)
                 THEN /\ Return(ErrorResult("Failed to split audio into chunks"))
                      /\ UNCHANGED tasks
                 ELSE /\ tasks' = [k \in 1..Len(chunks) |-> NewTask]
                      /\ pc' = "dispatch"
                      /\ UNCHANGED result
    /\ UNCHANGED <<key_was_set, summary_text, caller, video_path, is_url, concurrency_level, chunk_length_sec,
                   credential, temp_dir_exists, source_file, audio_path,
                   chunks_results, full_transcript, stt_requests, chat_requests,
                   ui_outcome>>

SplitOk == SplitLengths(AudioLengths)

\* loading the audio or exporting a chunk raises, after some chunks were written
SplitFail ==
    /\ pc = "split"
    /\ \E len_ms \in AudioLengths, fmt \in AudioFormats :
          LET chunks == CutChunks(video_path.stem, fmt, len_ms, chunk_length_sec)
          IN  \E n \in 0..Len(chunks) :
                 files' = files \cup {chunks[k].file : k \in 1..n}
    /\ Fail("split", "Audio chunking failed")
    /\ UNCHANGED <<key_was_set, summary_text, caller, video_path, is_url, concurrency_level, chunk_length_sec,
                   credential, temp_dir_exists, source_file, audio_path, audio_len, audio_chunks,
                   tasks, chunks_results, full_transcript, stt_requests, chat_requests,
                   ui_outcome>>

(***************************************************************************)
(* Concurrent Dispatcher and the worker threads of the executor.           *)
(***************************************************************************)
Oversized(i) == audio_chunks[i].raw > UploadLimit

\* the file the request for window w of chunk i uploads
WindowFile(i, w) ==
    IF Oversized(i) THEN SubWindowFile(audio_chunks[i].file, w) ELSE audio_chunks[i].file

\* tasks a worker thread is executing
Running == {i \in 1..Len(tasks) : tasks[i].st \in {"ready", "inflight"}}

\* requests to the speech-to-text endpoint that were sent and have not returned
InFlight == {i \in 1..Len(tasks) : tasks[i].st = "inflight"}

\* an executor that starts a thread per submitted task
WorkerFreeUnbounded == TRUE

\* an executor that keeps one of its workers idle
WorkerFreeButOne == Cardinality(Running) + 1 < concurrency_level

\* a worker thread is free to take a task off the executor's queue
WorkerFree == Cardinality(Running) < concurrency_level

\* the task after transcribe_with_openai_whisper returned transcript_v1 = t,
\* ok telling whether the service answered with a text
AfterWindow(i, t, ok) ==
    LET tk == [tasks[i] EXCEPT !.failed = @ \/ ~ok, !.texts = Append(@, t)]
        acc == tk.acc \o t \o <<" ">>
    IN  IF ~Oversized(i)
        THEN [tk EXCEPT !.st = "done", !.response = ContentTranscript(t)]
        ELSE IF tk.win + 1 < Len(tk.chunks)
        THEN [tk EXCEPT !.st = "ready", !.win = tk.win + 1, !.acc = acc]
        ELSE [tk EXCEPT !.st = "done", !.acc = acc, !.response = ContentTranscript(acc)]

\* chunks = make_chunks(audio, chunk_duration_ms) of an oversized chunk
Windows(i) ==
    IF Oversized(i)
    THEN make_chunks(audio_chunks[i].fmt, audio_chunks[i].dur,
                     chunk_duration_ms(audio_chunks[i].raw, audio_chunks[i].dur))
    ELSE <<>>

\* a free worker takes the oldest queued task, decodes the chunk file and
\* cuts the windows of an oversized chunk
StartTask(i) ==
    /\ pc = "dispatch"
    /\ tasks[i].st = "queued"
    /\ \A j \in 1..(i - 1) : tasks[j].st # "queued"
    /\ WorkerFree
    /\ \E decoded \in BOOLEAN :
          tasks' = [tasks EXCEPT ![i] =
                      IF decoded THEN [@ EXCEPT !.st = "ready", !.chunks = Windows(i)]
                      ELSE [@ EXCEPT !.st = "done", !.failed = TRUE,
                                     !.response = ContentError(ErrDecode)]]
    /\ UNCHANGED <<key_was_set, summary_text, caller, pc, video_path, is_url, concurrency_level, chunk_length_sec,
                   credential, temp_dir_exists, files, source_file, audio_path,
                   audio_len, audio_chunks, chunks_results, full_transcript, stt_requests,
                   chat_requests, result, ui_outcome>>

\* the worker exports the window (oversized chunk) and calls
\* transcribe_with_openai_whisper: without a key it returns at once, with a key
\* the request is sent
Issue(i) ==
    /\ pc = "dispatch"
    /\ tasks[i].st = "ready"
    /\ IF credential
       THEN /\ tasks' = [tasks EXCEPT ![i].st = "inflight", ![i].requests = @ + 1]
            /\ files' = files \cup {WindowFile(i, tasks[i].win)}
            /\ stt_requests' = stt_requests + 1
       ELSE /\ tasks' = [tasks EXCEPT ![i] = AfterWindow(i, <<>>, FALSE)]
            /\ UNCHANGED <<files, stt_requests>>
    /\ UNCHANGED <<key_was_set, summary_text, caller, pc, video_path, is_url, concurrency_level, chunk_length_sec,
                   credential, temp_dir_exists, source_file, audio_path, audio_len, audio_chunks,
                   chunks_results, full_transcript, chat_requests, result, ui_outcome>>

\* the request returns a body with text or with an error, or raises; a window
\* file is removed only when the call returned
Respond(i) ==
    /\ pc = "dispatch"
    /\ tasks[i].st = "inflight"
    /\ \E outcome \in SttOutcomes :
          IF outcome = "exception"
          THEN /\ tasks' = [tasks EXCEPT ![i] =
                               [@ EXCEPT !.st = "done", !.failed = TRUE,
                                         !.response = ContentError(ErrTransport)]]
               /\ UNCHANGED files
          ELSE /\ tasks' = [tasks EXCEPT ![i] =
                               AfterWindow(i, TranscriptV1(i - 1, tasks[i].win, outcome),
                                           outcome # "error_body")]
               /\ files' = IF Oversized(i) THEN files \ {WindowFile(i, tasks[i].win)}
                           ELSE files
    /\ UNCHANGED <<key_was_set, summary_text, caller, pc, video_path, is_url, concurrency_level, chunk_length_sec,
                   credential, temp_dir_exists, source_file, audio_path, audio_len, audio_chunks,
                   chunks_results, full_transcript, stt_requests, chat_requests,
                   result, ui_outcome>>

\* as_completed yields a finished future; its result is appended
Collect(i) ==
    /\ pc = "dispatch"
    /\ tasks[i].st = "done"
    /\ chunks_results' =
          Append(chunks_results, ChunkResult(audio_chunks[i].file, tasks[i].response))
    /\ tasks' = [tasks EXCEPT ![i].st = "collected"]
    /\ UNCHANGED <<key_was_set, summary_text, caller, pc, video_path, is_url, concurrency_level, chunk_length_sec,
                   credential, temp_dir_exists, files, source_file, audio_path,
                   audio_len, audio_chunks, full_transcript, stt_requests, chat_requests, result,
                   ui_outcome>>

\* process_audio_chunk raises outside the try block of
\* audio_to_text_single_call (a MemoryError, say): the future ends with an
\* exception.  Nothing in the code raises there; only FaultSpec has this step.
TaskRaises(i) ==
    /\ pc = "dispatch"
    /\ tasks[i].st = "ready"
    /\ tasks' = [tasks EXCEPT ![i].st = "raised", ![i].failed = TRUE]
    /\ UNCHANGED <<key_was_set, summary_text, caller, pc, video_path, is_url, concurrency_level,
                   chunk_length_sec, credential, temp_dir_exists, files, source_file,
                   audio_path, audio_len, audio_chunks, chunks_results, full_transcript,
                   stt_requests, chat_requests, result, ui_outcome>>

\* a loop without the try block: future.result() raises out of the pipeline
CollectRaisedUncaught(i) ==
    /\ pc = "dispatch"
    /\ tasks[i].st = "raised"
    /\ pc' = "raised"
    /\ UNCHANGED <<key_was_set, summary_text, caller, video_path, is_url, concurrency_level,
                   chunk_length_sec, credential, temp_dir_exists, files, source_file,
                   audio_path, audio_len, audio_chunks, tasks, chunks_results,
                   full_transcript, stt_requests, chat_requests, result, ui_outcome>>

\* as_completed yields a future that ended with an exception: future.result()
\* raises, the except clause prints and the loop goes on
CollectRaised(i) ==
    /\ pc = "dispatch"
    /\ tasks[i].st = "raised"
    /\ tasks' = [tasks EXCEPT ![i].st = "dropped"]
    /\ UNCHANGED <<key_was_set, summary_text, caller, pc, video_path, is_url, concurrency_level,
                   chunk_length_sec, credential, temp_dir_exists, files, source_file,
                   audio_path, audio_len, audio_chunks, chunks_results, full_transcript,
                   stt_requests, chat_requests, result, ui_outcome>>

\* a dispatcher that goes on as soon as one future was yielded
AnyCollected == \E i \in 1..Len(tasks) : tasks[i].st = "collected"

\* every future was yielded, its result appended or its exception caught: the
\* loop and the with block end
AllCollected == \A i \in 1..Len(tasks) : tasks[i].st \in {"collected", "dropped"}

DispatchDone ==
    /\ pc = "dispatch"
    /\ AllCollected
    /\ pc' = "merge"
    /\ UNCHANGED <<key_was_set, summary_text, caller, video_path, is_url, concurrency_level, chunk_length_sec,
                   credential, temp_dir_exists, files, source_file, audio_path,
                   audio_len, audio_chunks, tasks, chunks_results, full_transcript, stt_requests,
                   chat_requests, result, ui_outcome>>

(***************************************************************************)
(* STEP 4 and the summarizer.                                              *)
(***************************************************************************)
Merge ==
    /\ pc = "merge"
    /\ IF MergeRaises(chunks_results)
       THEN /\ Fail("merge", "Transcript merging failed")
            /\ UNCHANGED full_transcript
       ELSE /\ full_transcript' = FullTranscript(chunks_results)
            /\ IF full_transcript' = <<>>
               THEN Return(ErrorResult("No transcript was generated from any audio chunk"))
               ELSE pc' = "summarize" /\ UNCHANGED result
    /\ UNCHANGED <<key_was_set, summary_text, caller, video_path, is_url, concurrency_level, chunk_length_sec,
                   credential, temp_dir_exists, files, source_file, audio_path,
                   audio_len, audio_chunks, tasks, chunks_results, stt_requests, chat_requests,
                   ui_outcome>>

\* the key is read; with a key the chat-completion request is sent
SummarizeIssue ==
    /\ pc = "summarize"
    /\ IF credential
       THEN /\ chat_requests' = chat_requests + 1
            /\ pc' = "summ_inflight"
            /\ UNCHANGED result
       ELSE /\ Return(ErrorResult("OpenAI API key not found in environment variables"))
            /\ UNCHANGED chat_requests
    /\ UNCHANGED <<key_was_set, summary_text, caller, video_path, is_url, concurrency_level, chunk_length_sec,
                   credential, temp_dir_exists, files, source_file, audio_path,
                   audio_len, audio_chunks, tasks, chunks_results, full_transcript, stt_requests,
                   ui_outcome>>

\* shutil.rmtree(chunks_dir); os.remove(audio_path), either of which may raise
CleanedUp(how) ==
    CASE how = "ok" -> {f \in files : f.dir # "chunks" /\ f # audio_path}
      [] how = "remove_raises" -> {f \in files : f.dir # "chunks"}
      [] OTHER -> files

\* a cleanup whose exception reaches the outer except clause
AfterCleanupEscalates(how, summary_json) ==
    IF how = "ok" THEN SummaryResult(summary_json)
    ELSE ErrorResult("Summarization failed")

\* what is returned after the cleanup: its exception is caught by a bare
\* except clause that prints a warning
AfterCleanup(how, summary_json) == SummaryResult(summary_json)

\* the request fails, or its content parses as JSON, or it does not
SummarizeRespond ==
    /\ pc = "summ_inflight"
    /\ \/ /\ Fail("summarize", "Summarization failed")
          /\ UNCHANGED <<files, summary_text>>
       \/ \E text \in SummaryTexts :
             /\ summary_text' = text
             /\ IF IsJson(text)
                THEN \E how \in {"ok", "rmtree_raises", "remove_raises"} :
                        /\ files' = CleanedUp(how)
                        /\ Return(AfterCleanup(how, text))
                ELSE /\ Return(ParseErrorResult(text))
                     /\ UNCHANGED files
    /\ UNCHANGED <<key_was_set, caller, video_path, is_url, concurrency_level, chunk_length_sec,
                   credential, temp_dir_exists, source_file, audio_path, audio_len, audio_chunks,
                   tasks, chunks_results, full_transcript, stt_requests, chat_requests,
                   ui_outcome>>

(***************************************************************************)
(* The environment and the rest of the Process handler.                    *)
(***************************************************************************)
\* OPENAI_API_KEY is set or unset while the pipeline reads it
EnvChange ==
    /\ pc \in {"dispatch", "summarize"}
    /\ credential' = ~credential
    /\ key_was_set' = (key_was_set \/ credential')
    /\ UNCHANGED <<summary_text, caller, pc, video_path, is_url, concurrency_level, chunk_length_sec,
                   temp_dir_exists, files, source_file, audio_path, audio_len, audio_chunks, tasks,
                   chunks_results, full_transcript, stt_requests, chat_requests,
                   result, ui_outcome>>

\* the handler shows the result or its 'Application Error' box, and its finally
\* clause removes temp_dir
UIFinish ==
    /\ caller # "direct"
    /\ pc \in {"returned", "raised"}
    /\ ui_outcome' = IF pc = "raised" THEN "application_error" ELSE "result"
    /\ temp_dir_exists' = FALSE
    /\ files' = {f \in files : f.dir \notin {"temp", "chunks"}}
    /\ pc' = "ui_done"
    /\ UNCHANGED <<key_was_set, summary_text, caller, video_path, is_url, concurrency_level, chunk_length_sec,
                   credential, source_file, audio_path, audio_len, audio_chunks, tasks,
                   chunks_results, full_transcript, stt_requests, chat_requests, result>>

Next ==
    \/ UISave
    \/ Call
    \/ DownloadOk
    \/ DownloadFail
    \/ NormalizeOk
    \/ NormalizeFail
    \/ SplitOk
    \/ SplitFail
    \/ \E i \in 1..Len(tasks) : StartTask(i)
    \/ \E i \in 1..Len(tasks) : Issue(i)
    \/ \E i \in 1..Len(tasks) : Respond(i)
    \/ \E i \in 1..Len(tasks) : Collect(i)
    \/ DispatchDone
    \/ Merge
    \/ SummarizeIssue
    \/ SummarizeRespond
    \/ EnvChange
    \/ UIFinish

Spec == Init /\ [][Next]_vars

(***************************************************************************)
(* The Chunk Splitter alone, over many lengths: the pipeline stands before *)
(* the splitter, the canonical audio of a local video extracted.           *)
(***************************************************************************)
SplitInit ==
    /\ caller = "direct"
    /\ video_path = Path("ext", <<"v">>, ".mp4")
    /\ is_url = FALSE
    /\ concurrency_level \in 1..MaxWorkers
    /\ chunk_length_sec \in 1..MaxChunkLength
    /\ credential \in BOOLEAN
    /\ pc = "split"
    /\ audio_path = AudioPathOf(video_path)
    /\ files = {video_path, audio_path}
    /\ temp_dir_exists = TRUE
    /\ source_file = video_path
    /\ audio_len = NotLoaded
    /\ audio_chunks = <<>>
    /\ tasks = <<>>
    /\ chunks_results = <<>>
    /\ full_transcript = <<>>
    /\ stt_requests = 0
    /\ chat_requests = 0
    /\ result = NoResult
    /\ ui_outcome = "none"
    /\ summary_text = NotReceived
    /\ key_was_set = credential

SplitQuarters == SplitLengths(QuarterLengths)

SplitSpec == SplitInit /\ [][SplitQuarters]_vars

(***************************************************************************)
(* The Dispatcher and its workers alone, over an audio long enough for two *)
(* chunks of 140 seconds, each of which is cut into sub-windows.           *)
(***************************************************************************)
LongLengths == {280 * MsPerSec, 290 * MsPerSec}

WorkersInit ==
    /\ caller = "direct"
    /\ video_path = Path("ext", <<"v">>, ".mp4")
    /\ is_url = FALSE
    /\ concurrency_level \in 1..MaxWorkers
    /\ chunk_length_sec = 140
    /\ credential \in BOOLEAN
    /\ pc = "split"
    /\ audio_path = AudioPathOf(video_path)
    /\ files = {video_path, audio_path}
    /\ temp_dir_exists = TRUE
    /\ source_file = video_path
    /\ audio_len = NotLoaded
    /\ audio_chunks = <<>>
    /\ tasks = <<>>
    /\ chunks_results = <<>>
    /\ full_transcript = <<>>
    /\ stt_requests = 0
    /\ chat_requests = 0
    /\ result = NoResult
    /\ ui_outcome = "none"
    /\ summary_text = NotReceived
    /\ key_was_set = credential

SplitLong == SplitLengths(LongLengths)

WorkersNext ==
    \/ SplitLong
    \/ \E i \in 1..Len(tasks) : StartTask(i)
    \/ \E i \in 1..Len(tasks) : Issue(i)
    \/ \E i \in 1..Len(tasks) : Respond(i)
    \/ \E i \in 1..Len(tasks) : Collect(i)
    \/ DispatchDone
    \/ EnvChange

WorkersSpec == WorkersInit /\ [][WorkersNext]_vars

(***************************************************************************)
(* A direct call under fairness: a URL source, chunks of 60 or 140         *)
(* seconds, the key set or unset at any time.                              *)
(***************************************************************************)
FairInit ==
    /\ caller = "direct"
    /\ video_path = Path("url", <<"v">>, ".mp4")
    /\ is_url = TRUE
    /\ concurrency_level \in 1..MaxWorkers
    /\ chunk_length_sec \in ChunkLengths
    /\ credential \in BOOLEAN
    /\ pc = "call"
    /\ audio_path = NoPath
    /\ files = {}
    /\ temp_dir_exists = FALSE
    /\ source_file = NoPath
    /\ audio_len = NotLoaded
    /\ audio_chunks = <<>>
    /\ tasks = <<>>
    /\ chunks_results = <<>>
    /\ full_transcript = <<>>
    /\ stt_requests = 0
    /\ chat_requests = 0
    /\ result = NoResult
    /\ ui_outcome = "none"
    /\ summary_text = NotReceived
    /\ key_was_set = credential

\* a step of the main thread or of a worker thread, an external step that
\* returns or fails included
PipelineStep ==
    \/ Call
    \/ DownloadOk
    \/ DownloadFail
    \/ NormalizeOk
    \/ NormalizeFail
    \/ SplitOk
    \/ SplitFail
    \/ \E i \in 1..Len(tasks) : StartTask(i)
    \/ \E i \in 1..Len(tasks) : Issue(i)
    \/ \E i \in 1..Len(tasks) : Respond(i)
    \/ \E i \in 1..Len(tasks) : Collect(i)
    \/ DispatchDone
    \/ Merge
    \/ SummarizeIssue
    \/ SummarizeRespond

FairNext == PipelineStep \/ EnvChange

\* the threads keep running and every external step eventually returns or
\* fails: a pipeline step that stays possible is eventually taken.  The
\* environment (EnvChange) is under no such obligation.
FairSpec == FairInit /\ [][FairNext]_vars /\ WF_vars(PipelineStep)

(***************************************************************************)
(* The Dispatcher and the Assembler when a chunk task may end with an      *)
(* exception, to exercise the except clause of the collecting loop.        *)
(***************************************************************************)
FaultInit ==
    /\ caller = "direct"
    /\ video_path = Path("ext", <<"v">>, ".mp4")
    /\ is_url = FALSE
    /\ concurrency_level \in 1..MaxWorkers
    /\ chunk_length_sec \in ChunkLengths
    /\ credential \in BOOLEAN
    /\ pc = "split"
    /\ audio_path = AudioPathOf(video_path)
    /\ files = {video_path, audio_path}
    /\ temp_dir_exists = TRUE
    /\ source_file = video_path
    /\ audio_len = NotLoaded
    /\ audio_chunks = <<>>
    /\ tasks = <<>>
    /\ chunks_results = <<>>
    /\ full_transcript = <<>>
    /\ stt_requests = 0
    /\ chat_requests = 0
    /\ result = NoResult
    /\ ui_outcome = "none"
    /\ summary_text = NotReceived
    /\ key_was_set = credential

FaultNext ==
    \/ SplitOk
    \/ \E i \in 1..Len(tasks) : StartTask(i)
    \/ \E i \in 1..Len(tasks) : Issue(i)
    \/ \E i \in 1..Len(tasks) : Respond(i)
    \/ \E i \in 1..Len(tasks) : TaskRaises(i)
    \/ \E i \in 1..Len(tasks) : Collect(i)
    \/ \E i \in 1..Len(tasks) : CollectRaised(i)
    \/ DispatchDone
    \/ Merge
    \/ EnvChange

FaultSpec == FaultInit /\ [][FaultNext]_vars

(***************************************************************************)
(* Properties.                                                             *)
(***************************************************************************)
\* the ChunkResult of chunk i (1-based position in audio_chunks)
ResultOf(i) == ChunkResult(audio_chunks[i].file, tasks[i].response)

\* STEP 4 has run: chunks were dispatched and the main thread has left the merge
Merged == tasks # <<>> /\ pc \notin {"dispatch", "merge"}

EveryTaskCollected == \A i \in 1..Len(tasks) : tasks[i].st = "collected"

\* the results in ascending chunk-index order
ResultsByIndex == [i \in 1..Len(tasks) |-> ResultOf(i)]

\* the non-empty transcripts joined with single spaces in chunk-index order
TranscriptInIndexOrder == join(<<" ">>, TruthyTranscripts(ResultsByIndex))

\* the texts of the chunks i..n whose calls all succeeded with a non-empty text
RECURSIVE SuccessfulTexts(_)
SuccessfulTexts(i) ==
    IF i > Len(tasks) THEN <<>>
    ELSE (IF ~tasks[i].failed /\ Truthy(ResultOf(i).transcript)
          THEN <<ResultOf(i).transcript>> ELSE <<>>)
         \o SuccessfulTexts(i + 1)

MergeFailed == result.error = "Transcript merging failed"
NoTranscript == result.error = "No transcript was generated from any audio chunk"

\* C1: whatever the base name and the order results were appended in, the
\* assembled transcript is the non-empty chunk transcripts joined with single
\* spaces in ascending numeric chunk-index order.
C1_AssembledInIndexOrder ==
    Merged => (~MergeFailed /\ full_transcript = TranscriptInIndexOrder)

\* C2: when every collected ChunkResult has a null or empty transcript the
\* pipeline returns the no-transcript error and has sent no chat-completion
\* request.
C2_AllEmptyGivesNoTranscriptError ==
    (Merged /\ \A k \in 1..Len(chunks_results) : ~Truthy(chunks_results[k].transcript))
        => (pc = "returned" /\ NoTranscript /\ chat_requests = 0)

\* C3: the speech-to-text requests in flight never outnumber concurrency_level.
C3_InFlightBounded == Cardinality(InFlight) <= concurrency_level

\* C3 witness: every worker has a request in flight, one of them for a later
\* window of an oversized chunk, while a submitted task still waits.
C3_Witness ==
    /\ Cardinality(InFlight) = concurrency_level
    /\ \E i \in InFlight : Oversized(i) /\ tasks[i].win > 0
    /\ \E i \in 1..Len(tasks) : tasks[i].st = "queued"

\* C4: once the merge or the summarization has started, every submitted chunk
\* task has finished and its result was collected.
C4_MergeAfterAllSettled ==
    (tasks # <<>> /\ pc # "dispatch")
        => (EveryTaskCollected /\ Len(chunks_results) = Len(tasks))

\* C4 witness: the summarization request is in flight after three chunk tasks.
C4_Witness == pc = "summ_inflight" /\ Len(tasks) = 3 /\ chat_requests = 1

\* C5: when the pipeline has returned, temp_dir no longer exists.
C5_TempDirRemovedOnReturn == pc = "returned" => ~temp_dir_exists

\* C6: the ChunkResult of a chunk whose transcription failed has an error and
\* a null transcript, that of a chunk that succeeded has a transcript and a
\* null error.
C6_ExactlyOneFieldSet ==
    \A i \in 1..Len(tasks) :
        tasks[i].st = "collected" =>
            /\ \E k \in 1..Len(chunks_results) : chunks_results[k] = ResultOf(i)
            /\ IF tasks[i].failed
               THEN ResultOf(i).error # NULL /\ ResultOf(i).transcript = NULL
               ELSE ResultOf(i).error = NULL /\ ResultOf(i).transcript # NULL

\* C7: when at least one chunk yields a non-empty transcript the run reaches
\* the summarizer, with a transcript made of the successful chunks' texts in
\* index order and nothing for the failed chunks.
C7_FailedChunksContributeNothing ==
    (Merged /\ SuccessfulTexts(1) # <<>>)
        => /\ ~MergeFailed
           /\ ~NoTranscript
           /\ full_transcript = join(<<" ">>, SuccessfulTexts(1))

\* C8: a failure of a download, conversion, chunking, merge or summarization
\* step never leaves the function as an exception, and what the function
\* returns holds 'summary' or 'error'.  (An exception before the body runs,
\* from binding the arguments, is the subject of C9.)
C8_FailuresReturnDict ==
    /\ pc = "raised" => ~Accepts(Kwargs(caller))
    /\ pc = "returned" => result.keys \cap {"summary", "error"} # {}

\* C8 witness: the merge step raised and the function returned an error.
C8_Witness == pc = "returned" /\ MergeFailed /\ result.keys = {"error"}

\* C9: the Process handler's call is accepted, and the handler does not end
\* in its 'Application Error' branch.
C9_UICallAccepted ==
    caller \in {"ui_file", "ui_url"}
        => (pc # "raised" /\ ui_outcome # "application_error")

\* C10: the splitter cuts ceil(C / L) chunks, each of duration L except the
\* last, whose duration is C mod L, or L when L divides C.
C10_ChunkCountAndDurations ==
    audio_len # NotLoaded =>
        LET L == chunk_length_sec * MsPerSec
            n == Len(audio_chunks)
        IN  /\ n = CeilDiv(audio_len, L)
            /\ \A k \in 1..n :
                  audio_chunks[k].dur =
                      IF k < n \/ audio_len % L = 0 THEN L ELSE audio_len % L

\* C10 witness: 8.25 seconds cut by 3: three chunks, the last one of 2.25.
C10_Witness ==
    /\ Len(audio_chunks) = 3
    /\ audio_chunks[3].dur # chunk_length_sec * MsPerSec
    /\ audio_chunks[3].dur = audio_len % (chunk_length_sec * MsPerSec)
    /\ audio_chunks[1].dur = chunk_length_sec * MsPerSec
    /\ audio_len % MsPerSec # 0

\* the worker of chunk i has decoded the chunk file
Decoded(i) == tasks[i].st # "queued" /\ tasks[i].response # ContentError(ErrDecode)

C12_ParseErrorKeepsRawText ==
    (summary_text # NotReceived /\ ~IsJson(summary_text))
        => /\ pc \in {"returned", "ui_done"}
           /\ result.keys = {"error", "raw_summary"}
           /\ result.error = "Failed to parse JSON summary"
           /\ result.raw_summary = summary_text

\* C12 witness: the endpoint answered with a JSON object after a label.
C12_Witness ==
    /\ pc = "returned"
    /\ chat_requests = 1
    /\ summary_text = "Summary: {}"
    /\ result.raw_summary = "Summary: {}"

\* the positions in the results collection that hold the result of chunk i
SlotsOf(i) ==
    {k \in 1..Len(chunks_results) : chunks_results[k].chunk_id = audio_chunks[i].file.stem}

\* C13: whatever the remote call does (text, error body, transport exception,
\* missing credential, chunk that cannot be decoded) the client returns a
\* ChunkResult: once the dispatcher has finished, the results collection
\* holds exactly one ChunkResult per submitted chunk, and the chunk_ids are
\* pairwise distinct.
C13_OneResultPerChunk ==
    /\ \A i \in 1..Len(tasks) :
          /\ Cardinality(SlotsOf(i)) <= 1
          /\ tasks[i].st = "collected" => \E k \in SlotsOf(i) : chunks_results[k] = ResultOf(i)
    /\ (tasks # <<>> /\ pc # "dispatch") =>
          /\ Len(chunks_results) = Len(tasks)
          /\ \A i \in 1..Len(tasks) : Cardinality(SlotsOf(i)) = 1
          /\ \A k, l \in 1..Len(chunks_results) :
                k # l => chunks_results[k].chunk_id # chunks_results[l].chunk_id

\* C13 witness: the dispatcher has finished three chunks: one could not be
\* decoded, one met a transport exception, one got its text.
C13_Witness ==
    /\ pc = "merge"
    /\ Len(chunks_results) = 3
    /\ \E k \in 1..3 : chunks_results[k].error = ErrDecode
    /\ \E k \in 1..3 : chunks_results[k].error = ErrTransport
    /\ \E k \in 1..3 : Truthy(chunks_results[k].transcript)

\* C14: once the pipeline has returned, on the success path or on a failure
\* after the normalizer made it, the canonical audio file does not exist.
C14_CanonicalAudioDeleted ==
    (pc = "returned" /\ audio_path # NoPath) => audio_path \notin files

\* the place of a position of the main thread in the order of the stages
StageRank(p) ==
    CASE p \in {"ui", "call"} -> 0
      [] p = "fetch" -> 1
      [] p = "normalize" -> 2
      [] p = "split" -> 3
      [] p = "dispatch" -> 4
      [] p = "merge" -> 5
      [] p \in {"summarize", "summ_inflight"} -> 6
      [] OTHER -> 7

\* the run has ended
Ended == pc \in {"returned", "raised", "ui_done"}

\* a step keeps the order of the stages, and what a stage does is done only
\* while the main thread is in that stage
StageOrderStep ==
    /\ StageRank(pc') >= StageRank(pc)
    /\ (StageRank(pc) >= 1 /\ StageRank(pc') <= 6) => StageRank(pc') <= StageRank(pc) + 1
    /\ (pc = "call" /\ pc' # pc) => pc' \in {"fetch", "normalize", "raised"}
    /\ video_path' # video_path => pc = "fetch"
    /\ audio_path' # audio_path => pc = "normalize"
    /\ (audio_len' # audio_len \/ audio_chunks' # audio_chunks) => pc = "split"
    /\ tasks' # tasks => pc \in {"split", "dispatch"}
    /\ (stt_requests' # stt_requests \/ chunks_results' # chunks_results) => pc = "dispatch"
    /\ full_transcript' # full_transcript => pc = "merge"
    /\ chat_requests' # chat_requests => pc = "summarize"
    /\ summary_text' # summary_text => pc = "summ_inflight"

\* a fatal failure has ended the run, and no later stage has acted
HaltedAtFailure ==
    /\ result.keys # {} => Ended
    /\ result.error = "Failed to download from URL" =>
          /\ audio_path = NoPath
          /\ \A f \in files : f.ext # ".wav"
    /\ result.error \in {"Failed to download from URL", "Audio extraction failed",
                          "Audio conversion failed"} =>
          /\ audio_len = NotLoaded /\ audio_chunks = <<>> /\ tasks = <<>>
          /\ \A f \in files : f.dir # "chunks"
          /\ stt_requests = 0 /\ chat_requests = 0
    /\ result.error \in {"Audio chunking failed", "Failed to split audio into chunks"} =>
          tasks = <<>> /\ stt_requests = 0 /\ chat_requests = 0
    /\ result.error \in {"Transcript merging failed",
                          "No transcript was generated from any audio chunk"} =>
          chat_requests = 0

\* C15: the stages run in the order fetch, normalize, split, dispatch,
\* assemble, summarize, and a fatal failure of a stage ends the run with an
\* error result before any later stage acts: no conversion after a failed
\* download, no chunk and no request after a failed extraction or conversion.
C15_StagesInOrderAndHalt == [](HaltedAtFailure) /\ [][StageOrderStep]_vars

\* C15 witness: a downloaded video whose audio extraction failed: the run has
\* ended with nothing cut and nothing requested.
C15_Witness ==
    /\ pc = "returned"
    /\ is_url /\ video_path.dir = "temp"
    /\ result.error = "Audio extraction failed"
    /\ audio_chunks = <<>> /\ stt_requests = 0 /\ chat_requests = 0

\* C16: when the splitter cuts no chunk (an audio of length zero) the
\* pipeline returns the error 'Failed to split audio into chunks', submits no
\* task to the worker pool and sends no transcription or summarization
\* request.
C16_NoChunksGivesError ==
    (audio_len # NotLoaded /\ audio_chunks = <<>>)
        => /\ pc \in {"returned", "ui_done"}
           /\ result = ErrorResult("Failed to split audio into chunks")
           /\ tasks = <<>> /\ chunks_results = <<>>
           /\ stt_requests = 0 /\ chat_requests = 0

\* C16 witness: the canonical audio was loaded with length zero and the
\* pipeline has returned.
C16_Witness ==
    /\ pc = "returned"
    /\ audio_len = 0 /\ audio_chunks = <<>>
    /\ audio_path \in files
    /\ result.error = "Failed to split audio into chunks"

\* the sub-window files of chunk i that exist
SubWindowFilesOf(i) ==
    {w \in 0..(Len(tasks[i].chunks) - 1) : SubWindowFile(audio_chunks[i].file, w) \in files}

\* C17: each sub-window file of an oversized chunk is deleted right after its
\* transcription call, whatever the call's outcome: at most one sub-window
\* file of a chunk exists at a time, and none once the client has returned
\* for the chunk.
C17_SubWindowFilesRemoved ==
    \A i \in 1..Len(tasks) :
        /\ Cardinality(SubWindowFilesOf(i)) <= 1
        /\ tasks[i].st # "inflight" => SubWindowFilesOf(i) = {}

\* C18: the transcript of an oversized chunk is the texts of its sub-windows,
\* in sub-window order, joined with exactly one space between consecutive
\* texts, with no separator before the first or after the last.
C18_SubWindowTextsJoined ==
    \A i \in 1..Len(tasks) :
        (Oversized(i) /\ tasks[i].st \in {"done", "collected"}
         /\ Len(tasks[i].texts) = Len(tasks[i].chunks) /\ Len(tasks[i].chunks) >= 1)
            => tasks[i].response.transcript = join(<<" ">>, tasks[i].texts)

\* the files the worker of chunk i reads, exports and removes
FilesOfWorker(i) ==
    {audio_chunks[i].file}
        \cup {SubWindowFile(audio_chunks[i].file, w - 1) : w \in 1..Len(tasks[i].chunks)}

\* the files a step creates or removes
FilesTouched == (files' \ files) \cup (files \ files')

\* a step taken while the workers run touches files of one running worker only
OneWorkerTouches ==
    (pc = "dispatch" /\ FilesTouched # {})
        => \E i \in Running : FilesTouched \subseteq FilesOfWorker(i)

\* the files of two workers that run at the same time are disjoint
RunningWorkersDisjoint ==
    \A i, j \in Running : i # j => FilesOfWorker(i) \cap FilesOfWorker(j) = {}

\* C19: no two workers that run at the same time write or delete the same
\* path: the chunk file a worker reads and the sub-window files it exports
\* and removes are shared with no other worker, in every interleaving.
C19_WorkersFilesDisjoint == [](RunningWorkersDisjoint) /\ [][OneWorkerTouches]_vars

\* C19 witness: two workers each have a request in flight for a sub-window of
\* their own oversized chunk, and both sub-window files exist.
C19_Witness ==
    /\ Len(tasks) >= 2
    /\ \A i \in 1..2 :
          /\ tasks[i].st = "inflight"
          /\ Oversized(i)
          /\ SubWindowFile(audio_chunks[i].file, tasks[i].win) \in files

\* C20: when a chunk task ends with an exception the dispatcher catches it:
\* the exception does not leave the pipeline, that chunk has no entry in the
\* results collection, every other chunk is executed and its result
\* collected, and the run goes on to the assembler.
C20_TaskExceptionCaught ==
    /\ pc # "raised"
    /\ \A i \in 1..Len(tasks) : tasks[i].st \in {"raised", "dropped"} => SlotsOf(i) = {}
    /\ (tasks # <<>> /\ pc # "dispatch") =>
          /\ pc \in {"merge", "summarize", "returned"}
          /\ \A i \in 1..Len(tasks) :
                tasks[i].st # "dropped" =>
                    /\ tasks[i].st = "collected"
                    /\ \E k \in SlotsOf(i) : chunks_results[k] = ResultOf(i)
          /\ Len(chunks_results)
                = Cardinality({i \in 1..Len(tasks) : tasks[i].st = "collected"})

\* C20 witness: the first of three chunk tasks raised; the two others were
\* collected, one of them with a text, and the assembler has run.
C20_Witness ==
    /\ pc = "summarize"
    /\ Len(tasks) = 3
    /\ tasks[1].st = "dropped"
    /\ Len(chunks_results) = 2
    /\ \E k \in 1..2 : Truthy(chunks_results[k].transcript)

\* C21: once the content of the chat-completion answer has parsed as JSON,
\* the pipeline returns {'summary': ...} with no error, whether or not the
\* removal of the chunks directory or of the canonical audio file failed.
C21_CleanupFailureNotFatal ==
    (summary_text # NotReceived /\ IsJson(summary_text))
        => /\ pc \in {"returned", "ui_done"}
           /\ result = SummaryResult(summary_text)
           /\ result.keys = {"summary"}

\* C21 witness: the summary was returned although the removal of the chunks
\* directory raised: the chunk files and the canonical audio are still there.
C21_Witness ==
    /\ pc = "returned"
    /\ result.keys = {"summary"}
    /\ audio_path \in files
    /\ \E f \in files : f.dir = "chunks"

\* C22: from the call of transcribe_and_summarize_video to its return the
\* file the caller supplied exists: the pipeline removes only files it made
\* itself, also when a .wav input already is at the canonical path.
C22_SourceFileKept ==
    (source_file # NoPath /\ pc \notin {"ui", "ui_done"}) => source_file \in files

KeyNotFound == result.error = "OpenAI API key not found in environment variables"

\* C23: when OPENAI_API_KEY is absent during the whole run, a run that
\* dispatched its chunks ends with the no-transcript error, no chunk has a
\* transcript and no request was sent to either endpoint; the summarizer
\* returns its own missing-key error only when the key was set at some time
\* before.
C23_NoKeyGivesNoTranscript ==
    /\ (~key_was_set /\ pc = "returned" /\ tasks # <<>>)
          => /\ NoTranscript
             /\ \A k \in 1..Len(chunks_results) : ~Truthy(chunks_results[k].transcript)
             /\ stt_requests = 0 /\ chat_requests = 0
    /\ KeyNotFound => key_was_set

\* the body of transcribe_and_summarize_video is about to run
BodyStarts == pc = "call" /\ Accepts(Kwargs(caller))

\* every submitted chunk task has settled and was yielded to the dispatcher
Settled == \A i \in 1..Len(tasks) : tasks[i].st = "collected"

\* C24: when every external step eventually returns or fails and the threads
\* keep running, a call whose arguments were accepted eventually returns a
\* result, every chunk task it submitted having settled.
C24_RunTerminates == BodyStarts ~> (pc = "returned" /\ Settled)

\* C24 witness: a run of three chunks on one worker has returned, its three
\* tasks settled after transcription requests.
C24_Witness ==
    /\ pc = "returned"
    /\ concurrency_level = 1
    /\ Len(tasks) = 3 /\ Settled
    /\ stt_requests >= 3

====
